---------------------------- MODULE Spec2Model ----------------------------
(***************************************************************************)
(* IntSet<T> of src/intset.rs: a set of integers kept as a TreeMap from    *)
(* the high end of each closed range to its low end.                       *)
(*                                                                         *)
(* The element type T is a bounded integer type; it is modelled as the     *)
(* interval MinT..MaxT with the saturating arithmetic of                   *)
(* std::num::Saturating.  A TreeMap<T, T> is a function whose domain is    *)
(* the set of its keys; an iterator over it is the ascending sequence of   *)
(* the keys still to be visited.                                           *)
(***************************************************************************)
EXTENDS Integers, Sequences, FiniteSets, TLC

\* Least value of the element type T, an unsigned integer type.
MinT == 0

\* Greatest value of T in the model.
MaxT == 4

\* Number of leading calls of a run that the history variable records.
MaxHist == 2

T == MinT..MaxT

VARIABLES
  ints,      \* self.ints: the TreeMap high -> low of the receiver
  failed,    \* which assertion of add_range has fired: "none", "remove", "insert"
  pre,       \* ghost: self.ints before the last call
  last,      \* ghost: the last call, its arguments and what it returned or left
             \* of a borrowed argument
  repeated,  \* ghost: the last call is add_range with the arguments of the call before it
  hist,      \* ghost: the calls since construction, while they are at most
             \* MaxHist calls of add and add_range and nothing else
  pc,        \* where a call of add_range taken step by step stands:
             \* "idle", "find", "scan", "remove"
  cur_iter,  \* add_range: iter, the keys the iterator has yet to yield
  cur_to_delete, \* add_range: the keys of to_delete not yet removed
  merged,    \* add_range: (new_high, new_low) so far, then (insert_high, insert_low)
  log,       \* ghost: the accesses of the current call to self.ints, in order
  obs        \* ghost: the last contains made by another reader during a call

\* The locals of a call of add_range taken step by step, and its ghosts.
locals == <<pc, cur_iter, cur_to_delete, merged, log, obs>>

vars == <<ints, failed, pre, last, repeated, hist, pc, cur_iter,
          cur_to_delete, merged, log, obs>>

---------------------------------------------------------------------------
\* Arithmetic of T.

\* Mutant of min: new_low taken from the range found, low forgotten.
min_found_only(a, b) == b

\* Mutant of max: new_high taken from the range added, the range found forgotten.
max_added_only(a, b) == a

\* std::cmp::min, std::cmp::max
min(a, b) == IF a <= b THEN a ELSE b

max(a, b) == IF a >= b THEN a ELSE b

\* Mutant of saturating_sub: the probe is low itself, the step down forgotten.
saturating_sub_no_step(x) == x

\* x.saturating_sub(One::one())
saturating_sub(x) == IF x = MinT THEN MinT ELSE x - 1

\* Mutant of saturating_add: the scan stops at iter_low > high, the step up forgotten.
saturating_add_no_step(x) == x

\* Mutant of saturating_add: a wrapping step, MaxT + 1 = MinT.
saturating_add_wrapping(x) == IF x = MaxT THEN MinT ELSE x + 1

\* x.saturating_add(One::one())
saturating_add(x) == IF x = MaxT THEN MaxT ELSE x + 1

---------------------------------------------------------------------------
\* TreeMap<T, T>.

\* TreeMap::new()
new == [k \in {} |-> MinT]

\* The keys of S from n upwards, in ascending order: what an iterator
\* positioned at n yields.
RECURSIVE From(_, _)
From(S, n) ==
  IF n > MaxT THEN <<>>
  ELSE IF n \in S THEN <<n>> \o From(S, n + 1)
  ELSE From(S, n + 1)

\* TreeMap::iter(): every key, ascending.
iter(m) == From(DOMAIN m, MinT)

\* TreeMap::lower_bound(&n): an iterator positioned at the first key >= n.
lower_bound(m, n) == From(DOMAIN m, n)

\* TreeMap::remove(&k): the map without k, and whether k was there.
remove(m, k) ==
  [map |-> [x \in DOMAIN m \ {k} |-> m[x]], is_some |-> k \in DOMAIN m]

\* TreeMap::insert(k, v): the map with k -> v, and whether k was there before.
insert(m, k, v) ==
  [map |-> [x \in DOMAIN m \cup {k} |-> IF x = k THEN v ELSE m[x]],
   is_some |-> k \in DOMAIN m]

---------------------------------------------------------------------------
\* IntSet<T>.

\* IntSet::find
find(m, n) == lower_bound(m, n)

\* Mutant of contains: n > *low, the low end of a range left out.
contains_strict(m, n) ==
  LET it == find(m, n)
  IN  IF it = <<>> THEN FALSE ELSE n > m[Head(it)]

\* IntSet::contains
contains(m, n) ==
  LET it == find(m, n)
  IN  IF it = <<>> THEN FALSE ELSE n >= m[Head(it)]

\* Mutant of Verbatim: key and value swapped, the range stored as low -> high.
VerbatimSwapped(low, high) ==
  [insert_high |-> low, insert_low |-> high, to_delete |-> <<>>]

\* add_range, the None arm: no overlapping range, (insert_high, insert_low) is
\* the range verbatim and nothing is deleted.
Verbatim(low, high) ==
  [insert_high |-> high, insert_low |-> low, to_delete |-> <<>>]

\* Mutant of Scan: to_delete.push(iter_high) forgotten in the loop.
RECURSIVE ScanNoPush(_, _, _, _, _)
ScanNoPush(m, it, high, to_delete, new_high) ==
  IF it = <<>> THEN [to_delete |-> to_delete, new_high |-> new_high]
  ELSE LET iter_high == Head(it)
           iter_low  == m[iter_high]
       IN  IF iter_low > saturating_add(high)
           THEN [to_delete |-> to_delete, new_high |-> new_high]
           ELSE ScanNoPush(m, Tail(it), high, to_delete,
                           max(new_high, iter_high))

\* add_range, the for loop over the rest of the iterator: stops at the first
\* range that starts beyond high + 1, collects the others.
RECURSIVE Scan(_, _, _, _, _)
Scan(m, it, high, to_delete, new_high) ==
  IF it = <<>> THEN [to_delete |-> to_delete, new_high |-> new_high]
  ELSE LET iter_high == Head(it)
           iter_low  == m[iter_high]
       IN  IF iter_low > saturating_add(high)
           THEN [to_delete |-> to_delete, new_high |-> new_high]
           ELSE Scan(m, Tail(it), high, Append(to_delete, iter_high),
                     max(new_high, iter_high))

\* add_range, first block: the range to insert and the keys to delete.
Merge(m, low, high) ==
  LET it == find(m, saturating_sub(low))
  IN  IF it = <<>> THEN Verbatim(low, high)
      ELSE LET this_high == Head(it)
               this_low  == m[this_high]
               new_low   == min(low, this_low)
               s == Scan(m, Tail(it), high, <<this_high>>, max(high, this_high))
           IN  [insert_high |-> s.new_high, insert_low |-> new_low,
                to_delete |-> s.to_delete]

\* add_range, the deletion loop: stops at the first removal that finds nothing.
RECURSIVE RemoveAll(_, _)
RemoveAll(m, to_delete) ==
  IF to_delete = <<>> THEN [map |-> m, ok |-> TRUE]
  ELSE LET removed == remove(m, Head(to_delete))
       IN  IF ~removed.is_some THEN [map |-> removed.map, ok |-> FALSE]
           ELSE RemoveAll(removed.map, Tail(to_delete))

\* IntSet::add_range: the map it leaves and the assertion that fired, if any.
add_range(m, low, high) ==
  LET mg == Merge(m, low, high)
      rm == RemoveAll(m, mg.to_delete)
  IN  IF ~rm.ok THEN [ints |-> rm.map, failed |-> "remove"]
      ELSE LET existing == insert(rm.map, mg.insert_high, mg.insert_low)
           IN  [ints |-> existing.map,
                failed |-> IF existing.is_some THEN "insert" ELSE "none"]

\* Mutant of AddEach: the loop consumes set, taking each entry out as it is added.
RECURSIVE AddEachDraining(_, _, _)
AddEachDraining(m, set, it) ==
  IF it = <<>> THEN [ints |-> m, failed |-> "none", set |-> set]
  ELSE LET high == Head(it)
           low  == set[high]
           r    == add_range(m, low, high)
       IN  IF r.failed # "none"
           THEN [ints |-> r.ints, failed |-> r.failed, set |-> set]
           ELSE AddEachDraining(r.ints, remove(set, high).map, Tail(it))

\* IntSet::add_intset, the loop over the remaining entries of set: self after
\* it, the assertion that fired, if any, and set as the loop leaves it (set is
\* borrowed immutably and only read through its iterator).
RECURSIVE AddEach(_, _, _)
AddEach(m, set, it) ==
  IF it = <<>> THEN [ints |-> m, failed |-> "none", set |-> set]
  ELSE LET high == Head(it)
           low  == set[high]
           r    == add_range(m, low, high)
       IN  IF r.failed # "none"
           THEN [ints |-> r.ints, failed |-> r.failed, set |-> set]
           ELSE AddEach(r.ints, set, Tail(it))

\* IntSet::add_intset
add_intset(m, set) == AddEach(m, set, iter(set))

\* The maps an IntSet can hold as an argument: every set of values, built by
\* adding its members one by one in ascending order.
RECURSIVE Build(_, _)
Build(m, it) ==
  IF it = <<>> THEN m ELSE Build(add_range(m, Head(it), Head(it)).ints, Tail(it))

IntSets == {Build(new, From(S, MinT)) : S \in SUBSET T}

---------------------------------------------------------------------------
\* Ghost history.

\* The call record of add_range(low, high) appended, while there is room.
Record(h, low, high) ==
  IF h.exact /\ Len(h.calls) < MaxHist
  THEN [calls |-> Append(h.calls, <<low, high>>), exact |-> TRUE]
  ELSE [calls |-> <<>>, exact |-> FALSE]

Forget == [calls |-> <<>>, exact |-> FALSE]

---------------------------------------------------------------------------
\* The operations.

Init ==
  /\ ints = new
  /\ failed = "none"
  /\ pre = new
  /\ last = [op |-> "new"]
  /\ repeated = FALSE
  /\ hist = [calls |-> <<>>, exact |-> TRUE]
  /\ pc = "idle"
  /\ cur_iter = <<>>
  /\ cur_to_delete = <<>>
  /\ merged = [insert_high |-> MinT, insert_low |-> MinT]
  /\ log = <<>>
  /\ obs = [seen |-> FALSE]

\* The effect of one call of add_range(low, high) on self, made under the name op
\* (a panicked task makes no further calls: every operation requires failed = "none").
Call(op, low, high) ==
  LET r == add_range(ints, low, high)
  IN  /\ ints' = r.ints
      /\ failed' = r.failed
      /\ pre' = ints
      /\ last' = [op |-> op, low |-> low, high |-> high]
      /\ repeated' = (op = "add_range" /\ last = last')
      /\ hist' = Record(hist, low, high)
      /\ UNCHANGED locals

\* self.add(n)
Add == \E n \in T : failed = "none" /\ Call("add", n, n)

\* self.add_range(low, high), the caller keeping low <= high
AddRange ==
  \E low, high \in T :
    failed = "none" /\ low <= high /\ Call("add_range", low, high)

\* self.add_range(low, high), the caller passing low > high
AddRangeInverted ==
  \E low, high \in T :
    failed = "none" /\ low > high /\ Call("add_range", low, high)

\* self.add_intset(&set)
AddIntset ==
  \E set \in IntSets :
    LET r == add_intset(ints, set)
    IN  /\ failed = "none"
        /\ ints' = r.ints
        /\ failed' = r.failed
        /\ pre' = ints
        /\ last' = [op |-> "add_intset", set |-> set, after |-> r.set]
        /\ repeated' = FALSE
        /\ hist' = Forget
        /\ UNCHANGED locals

\* Mutant of Contains: the lookup takes the range it finds out of the map.
ContainsConsuming ==
  \E n \in T :
    /\ failed = "none"
    /\ last' = [op |-> "contains", n |-> n, ret |-> contains(ints, n)]
    /\ pre' = ints
    /\ repeated' = FALSE
    /\ hist' = Forget
    /\ ints' = (IF find(ints, n) = <<>> THEN ints
                ELSE remove(ints, Head(find(ints, n))).map)
    /\ UNCHANGED <<failed, locals>>

\* self.contains(n): a method on &self, the map is only read.
Contains ==
  \E n \in T :
    /\ failed = "none"
    /\ last' = [op |-> "contains", n |-> n, ret |-> contains(ints, n)]
    /\ pre' = ints
    /\ repeated' = FALSE
    /\ hist' = Forget
    /\ UNCHANGED <<ints, failed, locals>>

Next == Add \/ AddRange \/ AddIntset \/ Contains

Spec == Init /\ [][Next]_vars

\* The same, with callers that may break the precondition low <= high.
NextAnyArgs == Next \/ AddRangeInverted

SpecAnyArgs == Init /\ [][NextAnyArgs]_vars

---------------------------------------------------------------------------
\* add_range taken one access to self.ints at a time, with a second reader that
\* is not kept out while the call runs.

\* add_range is entered: to_delete is the empty Vec.
Begin ==
  \E low, high \in T :
    /\ failed = "none" /\ pc = "idle" /\ low <= high
    /\ pc' = "find"
    /\ cur_to_delete' = <<>>
    /\ cur_iter' = <<>>
    /\ log' = <<>>
    /\ obs' = [seen |-> FALSE]
    /\ pre' = ints
    /\ last' = [op |-> "add_range", low |-> low, high |-> high]
    /\ repeated' = (last = last')
    /\ hist' = Record(hist, low, high)
    /\ UNCHANGED <<ints, failed, merged>>

\* self.find(low - 1) and iter.next(): the None arm, or the head of the Some arm.
FindStep ==
  /\ failed = "none" /\ pc = "find"
  /\ LET found == find(ints, saturating_sub(last.low))
     IN  IF found = <<>>
         THEN /\ merged' = [insert_high |-> Verbatim(last.low, last.high).insert_high,
                            insert_low |-> Verbatim(last.low, last.high).insert_low]
              /\ cur_to_delete' = Verbatim(last.low, last.high).to_delete
              /\ cur_iter' = <<>>
              /\ pc' = "remove"
         ELSE LET this_high == Head(found)
                  this_low  == ints[this_high]
              IN  /\ merged' = [insert_high |-> max(last.high, this_high),
                                insert_low |-> min(last.low, this_low)]
                  /\ cur_to_delete' = <<this_high>>
                  /\ cur_iter' = Tail(found)
                  /\ pc' = "scan"
  /\ log' = Append(log, "read")
  /\ UNCHANGED <<ints, failed, pre, last, repeated, hist, obs>>

\* Mutant of ScanStep: the entry is removed inside the loop that reads the map.
ScanStepRemoving ==
  /\ failed = "none" /\ pc = "scan"
  /\ IF cur_iter = <<>> \/ ints[Head(cur_iter)] > saturating_add(last.high)
     THEN pc' = "remove" /\ UNCHANGED <<ints, cur_iter, cur_to_delete, merged>>
          /\ log' = Append(log, "read")
     ELSE /\ ints' = remove(ints, Head(cur_iter)).map
          /\ merged' = [merged EXCEPT !.insert_high = max(@, Head(cur_iter))]
          /\ cur_iter' = Tail(cur_iter)
          /\ log' = log \o <<"read", "remove">>
          /\ UNCHANGED <<pc, cur_to_delete>>
  /\ UNCHANGED <<failed, pre, last, repeated, hist, obs>>

\* One turn of the for loop over iter: the iterator is exhausted or yields a
\* range beyond high + 1, and the loop ends; or the range is collected.
ScanStep ==
  /\ failed = "none" /\ pc = "scan"
  /\ IF cur_iter = <<>> \/ ints[Head(cur_iter)] > saturating_add(last.high)
     THEN pc' = "remove" /\ UNCHANGED <<cur_iter, cur_to_delete, merged>>
     ELSE /\ cur_to_delete' = Append(cur_to_delete, Head(cur_iter))
          /\ merged' = [merged EXCEPT !.insert_high = max(@, Head(cur_iter))]
          /\ cur_iter' = Tail(cur_iter)
          /\ UNCHANGED pc
  /\ log' = Append(log, "read")
  /\ UNCHANGED <<ints, failed, pre, last, repeated, hist, obs>>

\* One turn of the loop over to_delete: self.ints.remove(high) and its assertion.
RemoveStep ==
  /\ failed = "none" /\ pc = "remove" /\ cur_to_delete # <<>>
  /\ LET removed == remove(ints, Head(cur_to_delete))
     IN  /\ ints' = removed.map
         /\ failed' = IF removed.is_some THEN "none" ELSE "remove"
  /\ cur_to_delete' = Tail(cur_to_delete)
  /\ log' = Append(log, "remove")
  /\ UNCHANGED <<pre, last, repeated, hist, pc, cur_iter, merged, obs>>

\* self.ints.insert(insert_high, insert_low) and its assertion; add_range returns.
InsertStep ==
  /\ failed = "none" /\ pc = "remove" /\ cur_to_delete = <<>>
  /\ LET existing == insert(ints, merged.insert_high, merged.insert_low)
     IN  /\ ints' = existing.map
         /\ failed' = IF existing.is_some THEN "insert" ELSE "none"
  /\ pc' = "idle"
  /\ log' = Append(log, "insert")
  /\ UNCHANGED <<pre, last, repeated, hist, cur_iter, cur_to_delete, merged, obs>>

\* contains(n) by a reader that shares self with the caller of add_range and
\* is not excluded while the call runs.
Observe ==
  \E n \in T :
    /\ failed = "none"
    /\ obs' = [seen |-> TRUE, n |-> n, ret |-> contains(ints, n), pc |-> pc]
    /\ UNCHANGED <<ints, failed, pre, last, repeated, hist, pc, cur_iter, cur_to_delete,
                   merged, log>>

NextSteps ==
  Begin \/ FindStep \/ ScanStep \/ RemoveStep \/ InsertStep \/ Observe

SpecSteps == Init /\ [][NextSteps]_vars

\* A call taken step by step ends as the call taken at once.
StepsAgree ==
  (last.op = "add_range" /\ (pc = "idle" \/ failed # "none")) =>
    LET r == add_range(pre, last.low, last.high)
    IN  ints = r.ints /\ failed = r.failed

---------------------------------------------------------------------------
\* Properties.

\* The values a call history has added: those inside one of its ranges.
Added(calls) ==
  {n \in T : \E i \in 1..Len(calls) : calls[i][1] <= n /\ n <= calls[i][2]}

\* The members of the set held in m, as contains reports them.
Members(m) == {n \in T : contains(m, n)}

\* The map holding the one range [low, high].
Single(low, high) == [k \in {high} |-> low]

IsAddCall == last.op \in {"add", "add_range"}

\* C1: after any sequence of add/add_range calls (low <= high) on an empty set,
\* contains(n) is true exactly for the n inside one of the ranges passed.
\* Violated: add_range(3, 4) then add_range(0, 1) leaves [0, 4], which contains 2.
C1_MembershipCorrect ==
  hist.exact => Members(ints) = Added(hist.calls)

\* C2: the stored ranges, read in ascending key order, have strictly increasing
\* low and high, and consecutive ranges neither overlap nor touch.
C2_DisjointOrdered ==
  \A h1, h2 \in DOMAIN ints :
    h1 < h2 => (ints[h1] < ints[h2] /\ ints[h2] > h1 + 1)

\* C2 witness: two ranges stored after a call that merged stored ranges away.
C2_Witness ==
  /\ IsAddCall
  /\ Cardinality(DOMAIN ints) >= 2
  /\ Cardinality(DOMAIN pre) > Cardinality(DOMAIN ints)

\* C3: after add_range(low, high) with low <= high every n of low..high is
\* contained.
C3_RangeContained ==
  IsAddCall => \A n \in last.low..last.high : contains(ints, n)

\* C3 witness: a call on a non-empty set whose range had members missing before.
C3_Witness ==
  /\ last.op = "add_range"
  /\ last.low < last.high
  /\ pre # new
  /\ \E n \in last.low..last.high : ~contains(pre, n)
  /\ \A n \in last.low..last.high : contains(ints, n)

\* C4: after self.add_intset(set), self contains exactly the values that self
\* held before or that set holds.
\* Violated: self = {[3, 4]}, set = {[0, 1]} leaves self = {[0, 4]}.
C4_UnionExact ==
  last.op = "add_intset" =>
    Members(ints) = Members(pre) \cup Members(last.set)

\* C5: for any reachable set and ranges [a, b], [c, d], adding [a, b] then
\* [c, d] stores the same ranges as adding [c, d] then [a, b].  Stated in the
\* state after add_range(a, b) on pre, for every next range [c, d].
\* Violated: on the empty set, [3, 4] then [0, 1] stores [0, 4], but [0, 1] then
\* [3, 4] stores [0, 1] and [3, 4].
C5_OrderIndependent ==
  (IsAddCall /\ failed = "none") =>
    \A c, d \in T :
      c <= d =>
        add_range(ints, c, d).ints
          = add_range(add_range(pre, c, d).ints, last.low, last.high).ints

\* C6: neither assertion of add_range ever fires: every key collected for
\* deletion is in the map when removed, and the key of the merged range is not
\* in the map when inserted.
C6_NoAssertionFires == failed = "none"

\* C6 witness: a call that removed at least two ranges and inserted their merge.
C6_Witness ==
  /\ last.op = "add_range"
  /\ failed = "none"
  /\ Cardinality(DOMAIN pre \ DOMAIN ints) >= 1
  /\ Cardinality(DOMAIN pre) >= Cardinality(DOMAIN ints) + 1

\* C7: add_range(low, high) with low > high is rejected and leaves the map as it
\* was.
\* Violated: add_range(1, 0) on the empty set stores the entry 0 -> 1 and
\* returns normally.
C7_InvertedRejected ==
  (last.op = "add_range" /\ last.low > last.high) =>
    (failed # "none" /\ ints = pre)

\* C8: every stored range has low <= high.
C8_LowLeHigh == \A h \in DOMAIN ints : ints[h] <= h

\* C8 witness: a call whose merged range reaches beyond the range added, on
\* both sides.
C8_Witness ==
  /\ last.op = "add_range"
  /\ \E h \in DOMAIN ints : ints[h] < last.low /\ last.high < h

\* C9: add_range(low, high) called twice in a row stores the same ranges as
\* calling it once.
C9_Idempotent == repeated => ints = pre

\* C9 witness: the second of two equal calls, the first of which changed a
\* non-empty set.
C9_Witness ==
  /\ repeated
  /\ last.low < last.high
  /\ Cardinality(DOMAIN ints) >= 2

\* C10: from the empty set, add_range(a, b) then add_range(b + 1, c) store the
\* one range [a, c]; and a range that fills the gap between two stored ranges
\* [l1, h1], [l2, h2] next to each other replaces both by the one range [l1, h2] and leaves the
\* other ranges alone.
C10_MergeClosure ==
  /\ (/\ hist.exact
      /\ Len(hist.calls) = 2
      /\ hist.calls[2][1] = hist.calls[1][2] + 1)
       => ints = Single(hist.calls[1][1], hist.calls[2][2])
  /\ IsAddCall =>
       \A h1, h2 \in DOMAIN pre :
         (h1 < h2 /\ (\A k \in DOMAIN pre : ~(h1 < k /\ k < h2))
            /\ last.low = h1 + 1 /\ last.high = pre[h2] - 1)
           => ints = [k \in DOMAIN pre \ {h1} |->
                        IF k = h2 THEN pre[h1] ELSE pre[k]]

\* C10 witness: the second of two adjacent calls on the empty set, a = b and
\* b + 1 < c included.
C10_Witness ==
  /\ hist.exact
  /\ Len(hist.calls) = 2
  /\ hist.calls[2][1] = hist.calls[1][2] + 1
  /\ hist.calls[1][1] < hist.calls[1][2]
  /\ hist.calls[2][1] < hist.calls[2][2]
  /\ Cardinality(DOMAIN ints) = 1

\* A gap between two stored ranges filled by the last call (the second case
\* of C10), with a third range stored besides.
GapFilled ==
  /\ last.op = "add_range"
  /\ \E h1, h2 \in DOMAIN pre :
       /\ h1 < h2 /\ (\A k \in DOMAIN pre : ~(h1 < k /\ k < h2))
       /\ last.low = h1 + 1 /\ last.high = pre[h2] - 1
  /\ Cardinality(DOMAIN pre) = 3


\* C11: self.add_intset(set) leaves set as it was: its stored ranges after the
\* call are those before it.
C11_ArgumentUnchanged ==
  last.op = "add_intset" => last.after = last.set

\* C11 witness: a union with a set of two ranges that changed self.
C11_Witness ==
  /\ last.op = "add_intset"
  /\ Cardinality(DOMAIN last.set) >= 2
  /\ last.after = last.set
  /\ pre # new
  /\ ints # pre

\* The keys of m whose ranges overlap or touch [low, high].
Touching(m, low, high) ==
  {h \in DOMAIN m : h + 1 >= low /\ m[h] <= high + 1}

\* The least element of a non-empty set of values.
Least(S) == CHOOSE x \in S : \A y \in S : x <= y

\* C12: the probe low - 1 saturates at MinT and high + 1 at MaxT;
\* add_range(MinT, MinT) on the empty set stores exactly [MinT, MinT]; and
\* add_range(a, MaxT) leaves one range ending at MaxT that absorbs exactly the
\* stored ranges overlapping or adjacent to [a, MaxT], the others kept as they
\* were.
C12_DomainBounds ==
  /\ saturating_sub(MinT) = MinT
  /\ saturating_add(MaxT) = MaxT
  /\ (IsAddCall /\ pre = new /\ last.low = MinT /\ last.high = MinT)
       => (ints = Single(MinT, MinT) /\ failed = "none")
  /\ (IsAddCall /\ last.high = MaxT)
       => LET gone == Touching(pre, last.low, MaxT)
              kept == DOMAIN pre \ gone
          IN  /\ failed = "none"
              /\ DOMAIN ints = kept \cup {MaxT}
              /\ \A h \in kept : ints[h] = pre[h]
              /\ ints[MaxT] = Least({last.low} \cup {pre[h] : h \in gone})

\* C12 witness: add_range(a, MaxT) that absorbed an adjacent range and a range
\* ending at MaxT and kept a third one.
C12_Witness ==
  /\ last.op = "add_range"
  /\ last.high = MaxT
  /\ MaxT \in DOMAIN pre
  /\ \E h \in DOMAIN pre : h + 1 = last.low
  /\ \E h \in DOMAIN pre : h + 1 < last.low
  /\ DOMAIN ints \cap DOMAIN pre # {MaxT}

\* The other case of C12: add_range(MinT, MinT) on the empty set.
MinOnEmpty ==
  /\ IsAddCall /\ pre = new /\ last.low = MinT /\ last.high = MinT
  /\ ints = Single(MinT, MinT)

\* C13: contains(n), and the find it uses, leave the stored ranges as they
\* were, and contains returns a boolean without failing.
C13_ContainsReadOnly ==
  last.op = "contains" =>
    (ints = pre /\ last.ret \in BOOLEAN /\ failed = "none")

\* C13 witness: a lookup that found a range and returned true, and one more
\* range is stored.
C13_Witness ==
  /\ last.op = "contains"
  /\ last.ret
  /\ Cardinality(DOMAIN ints) >= 2
  /\ ints = pre

\* C14: add_range(low, high) leaves every stored range that neither overlaps
\* nor touches [low, high] stored as it was; when the first range found at or
\* after the probe starts beyond high + 1, [low, high] is inserted as it is.
\* Violated: add(0) on {[2, 2]} finds [2, 2], removes it and stores [0, 2].
C14_OnlyTouchingMerged ==
  IsAddCall =>
    /\ \A h \in DOMAIN pre \ Touching(pre, last.low, last.high) :
         h \in DOMAIN ints /\ ints[h] = pre[h]
    /\ LET it == find(pre, saturating_sub(last.low))
       IN  (it # <<>> /\ pre[Head(it)] > last.high + 1)
             => (last.high \in DOMAIN ints /\ ints[last.high] = last.low)

\* C15: contains(n) is true exactly when a stored range [l, h] has l <= n <= h.
C15_LookupAgrees ==
  \A n \in T :
    contains(ints, n) <=> \E h \in DOMAIN ints : ints[h] <= n /\ n <= h

\* C15 witness: a lookup that returned true at the low end of a range that is
\* not the first stored.
C15_Witness ==
  /\ last.op = "contains"
  /\ last.ret
  /\ \E h \in DOMAIN ints : ints[h] = last.n /\ last.n < h
  /\ \E h \in DOMAIN ints : h < last.n

\* C16: no call removes a member: every value contained before the last call
\* is contained after it.
C16_Monotone == Members(pre) \subseteq Members(ints)

\* C16 witness: a call that removed stored ranges and stored their merge.
C16_Witness ==
  /\ IsAddCall
  /\ Cardinality(DOMAIN pre \ DOMAIN ints) >= 1
  /\ Members(pre) # Members(ints)
  /\ Members(pre) \subseteq Members(ints)

\* C17: add_range(low, high) of a range whose values are all contained leaves
\* the stored ranges as they were, and so does add_intset(set) when self
\* contains every value of set.
C17_Absorption ==
  /\ (IsAddCall /\ (last.low..last.high) \subseteq Members(pre)) => ints = pre
  /\ (last.op = "add_intset" /\ Members(last.set) \subseteq Members(pre))
       => ints = pre

\* C17 witness: a range of several values, strictly inside a stored range,
\* added to a set of two ranges.
C17_Witness ==
  /\ last.op = "add_range"
  /\ last.low < last.high
  /\ Cardinality(DOMAIN pre) >= 2
  /\ \E h \in DOMAIN pre : pre[h] < last.low /\ last.high <= h
  /\ ints = pre

\* The other case of C17: a union with a non-empty set already covered.
UnionAbsorbed ==
  /\ last.op = "add_intset"
  /\ last.set # new
  /\ Members(last.set) \subseteq Members(pre)
  /\ Members(last.set) # Members(pre)
  /\ ints = pre

\* The phase an access to self.ints belongs to.
Phase(a) == IF a = "read" THEN 1 ELSE IF a = "remove" THEN 2 ELSE 3

\* How many accesses of kind a the log holds.
Count(a) == Cardinality({i \in 1..Len(log) : log[i] = a})

\* C18: within one add_range the map is not modified until the scan has
\* finished; then the collected keys are removed; then one insertion comes
\* last.  No read of the map follows a write of it.
C18_PhaseOrder ==
  /\ pc \in {"find", "scan"} => (ints = pre /\ Count("read") = Len(log))
  /\ \A i, j \in 1..Len(log) :
       i < j => (Phase(log[i]) <= Phase(log[j]) /\ log[i] # "insert")
  /\ (pc = "idle" /\ last.op = "add_range" /\ failed = "none")
       => (log[Len(log)] = "insert" /\ Count("insert") = 1
           /\ Count("remove") = Cardinality(DOMAIN pre \ DOMAIN ints)
                                  + (IF merged.insert_high \in DOMAIN pre
                                     THEN 1 ELSE 0))

\* C18 witness: a finished call that read three times, removed two ranges and
\* then inserted.
C18_Witness ==
  /\ pc = "idle"
  /\ last.op = "add_range"
  /\ failed = "none"
  /\ Count("read") >= 3
  /\ Count("remove") >= 2
  /\ log[Len(log)] = "insert"

\* C19: a contains(n) by a reader that is not excluded can return false for a
\* value contained before add_range began and contained after it: only when it
\* falls after the scan, between the removals and the insertion; a read at any
\* other point of the call, or outside it, loses nothing.
C19_LostReadWindow ==
  /\ (obs.seen /\ contains(pre, obs.n) /\ ~obs.ret)
       => (obs.pc = "remove" /\ Count("remove") >= 1)
  /\ (pc = "idle" /\ failed = "none") => Members(pre) \subseteq Members(ints)

\* C19 witness: a finished call; the reader was told false for a value that was
\* contained before the call and is contained after it.
C19_Witness ==
  /\ pc = "idle"
  /\ failed = "none"
  /\ obs.seen
  /\ ~obs.ret
  /\ contains(pre, obs.n)
  /\ contains(ints, obs.n)

=============================================================================
